---- MODULE Spec2Model ----
(***************************************************************************)
(* The fund list of HomePage (page.jsx): the tracked list `funds`, its     *)
(* persisted copy in localStorage, the refresh cycle (refreshAll), the add *)
(* batch (addFund), removeFund, the import handler and the JSONP transport *)
(* of fetchFundData with its shared global callback window.jsonpgz.        *)
(*                                                                         *)
(* One action is one browser task: an event handler, or a network event    *)
(* together with the promise continuations (microtasks) it releases.       *)
(* State updates queued with setFunds are applied in the order they are    *)
(* queued and are seen by every later task, so they are applied here at    *)
(* the call.                                                               *)
(***************************************************************************)
EXTENDS Integers, Sequences, FiniteSets, TLC

\* ------------------------------------------------------------------ bounds
NumCodes == 2        \* fund codes 1..NumCodes stand for six-digit codes
MaxVal == 1          \* a fetched valuation (gsz) is one of 1..MaxVal
MaxDoc == 2          \* longest funds array of a stored or imported document
MaxTyped == 1        \* most tokens typed into the add form
MaxBatch == 2        \* longest batch of the merge specification
MaxOps == 3          \* user and timer tasks after the initial load
MaxFav == 1          \* longest favorites or collapsedCodes array of a document
MaxFields == 1       \* most fields of a hand-written import document
MaxList == 3
MaxRows == 11        \* most rows of a holdings table

Codes == 1..NumCodes
NoCode == 0          \* a falsy code: dedupeByCode drops the record (!c)
BadToken == NumCodes + 1  \* a typed token that is not six digits
Vals == 1..MaxVal
OldVal == MaxVal + 1 \* the valuation of a record that was stored or imported
Procs == {"refresh", "add"}
Stale == "stale"     \* the handler of a fetch whose promise is settled

Rec(c, v) == [code |-> c, gsz |-> v]
FetchedRecs == {Rec(c, v) : c \in Codes, v \in Vals}
DocRecs == {Rec(c, OldVal) : c \in Codes \cup {NoCode}}

\* ------------------------------------------------- numbers of milliseconds
\* A JavaScript number of milliseconds: `ms` whole milliseconds, and `frac`
\* when a fraction of a millisecond comes on top. The seconds field of the
\* settings dialog holds such a number too (its seconds, times 1000).
Num(n, f) == [ms |-> n, frac |-> f]
Whole(n) == Num(n, FALSE)
MinMs == 5000        \* the least interval accepted (lines 387, 783, 878)
DefaultMs == 30000   \* useState(30000) and the default of getItem('refreshMs')
NoMs == Whole(0 - 1) \* localStorage has no 'refreshMs' item

\* parseInt(String(x), 10)
parseInt(x) == Whole(x.ms)

\* parseInt(localStorage.getItem('refreshMs') || '30000', 10)
savedMsOf(stored) == IF stored = NoMs THEN Whole(DefaultMs) ELSE parseInt(stored)

\* Number.isFinite(x) && x >= 5000
atLeastAny(x) == TRUE

atLeastMin(x) == x.ms >= MinMs

\* Math.round(x / 1000), as a number of seconds
roundSeconds(x) == Whole(((x.ms + 500) \div 1000) * 1000)

\* Math.max(5, Number(tempSeconds)) * 1000
msOfSeconds(t) == IF t.ms < MinMs THEN Whole(MinMs) ELSE t

\* what the user can leave in the seconds field: 3, 10 and 5.0005
SecondsTyped == {Whole(3000), Whole(10000), Num(MinMs, TRUE)}

\* ------------------------------------------------- the outcome of a fetch
\* how a fetchFundData promise stands: not called, pending, or settled with
\* its value (the valuation record and the holdings, each with its change)
outcome(st, data, h) == [state |-> st, data |-> data, holdings |-> h]
NoResult == outcome("none", {}, <<>>)
Pending == outcome("pending", {}, <<>>)

\* a network event: the request of `owner` ended, the handler of `handler` ran
step(k, o, h, obj) == [kind |-> k, owner |-> o, handler |-> h, isObject |-> obj]
NoStep == step("none", "nobody", "nobody", FALSE)

\* ---------------------------------------------------------------- documents
\* The text of an import file: it does not parse, parses to something that is
\* not an object, or parses to an object. An object's field is given with a
\* flag that tells whether it has the type the handler tests for.
mkDoc(k, fa, f, va, v, ca, c, mn, m, vm) ==
  [kind |-> k, fundsArr |-> fa, funds |-> f, favArr |-> va, favorites |-> v,
   colArr |-> ca, collapsedCodes |-> c, msNum |-> mn, refreshMs |-> m, viewMode |-> vm]

emptyDoc(k) == mkDoc(k, FALSE, <<>>, FALSE, <<>>, FALSE, <<>>, FALSE, NoMs, "")
NoDoc == emptyDoc("none")

RECURSIVE SeqsUpTo(_, _)
SeqsUpTo(S, n) ==
  IF n = 0 THEN {<<>>}
  ELSE LET shorter == SeqsUpTo(S, n - 1)
       IN shorter \cup {Append(s, x) : s \in {t \in shorter : Len(t) = n - 1}, x \in S}

Range(s) == {s[i] : i \in 1..Len(s)}
CodesOf(list) == {list[i].code : i \in 1..Len(list)}
RemoveAt(s, i) == SubSeq(s, 1, i - 1) \o SubSeq(s, i + 1, Len(s))

\* ----------------------------------------------------------- pure helpers
RECURSIVE dedupeFrom(_, _)
dedupeFrom(list, seen) ==
  IF list = <<>> THEN <<>>
  ELSE LET f == Head(list)
           c == f.code
       IN IF c = NoCode \/ c \in seen
          THEN dedupeFrom(Tail(list), seen)
          ELSE <<f>> \o dedupeFrom(Tail(list), seen \cup {c})

dedupeByCodeKeepAll(list) == list

dedupeByCodeKeepLast(list) ==
  LET Reverse(l) == [i \in 1..Len(l) |-> l[Len(l) + 1 - i]]
  IN Reverse(dedupeFrom(Reverse(list), {}))

\* dedupeByCode: keep the first record of each code, drop records without one
dedupeByCode(list) == dedupeFrom(list, {})

RECURSIVE uniqueFrom(_, _)
uniqueFrom(codes, seen) ==
  IF codes = <<>> THEN <<>>
  ELSE IF Head(codes) \in seen
       THEN uniqueFrom(Tail(codes), seen)
       ELSE <<Head(codes)>> \o uniqueFrom(Tail(codes), seen \cup {Head(codes)})

ArrayFromList(codes) == codes

\* Array.from(new Set(codes)): first occurrences, in order
ArrayFromSet(codes) == uniqueFrom(codes, {})

codesOfList(list) == [i \in 1..Len(list) |-> list[i].code]

\* findIndex(f => f.code === c), 0 when there is none
RECURSIVE findIndexFrom(_, _, _)
findIndexFrom(list, c, i) ==
  IF i > Len(list) THEN 0
  ELSE IF list[i].code = c THEN i ELSE findIndexFrom(list, c, i + 1)

findIndex(list, c) == findIndexFrom(list, c, 1)

filterOut(list, c) == SelectSeq(list, LAMBDA f : f.code # c)

\* the forEach of the merge updater: replace in place, or push
RECURSIVE mergeEach(_, _)
mergeEach(merged, upd) ==
  IF upd = <<>> THEN merged
  ELSE LET u == Head(upd)
           idx == findIndex(merged, u.code)
       IN mergeEach(IF idx > 0 THEN [merged EXCEPT ![idx] = u] ELSE Append(merged, u),
                    Tail(upd))

mergeUpdatedPushOnly(prev, upd) == dedupeByCode(prev \o upd)

mergeFromBatchOnly(prev, upd) == dedupeByCode(upd)

\* the updater of refreshAll's final setFunds
mergeUpdated(prev, upd) == dedupeByCode(mergeEach(prev, upd))

\* ------------------------------------------------------------------ state
VARIABLES
  loaded,         \* the mount effect (initial load) has run
  funds,          \* the tracked list (React state)
  storedFunds,    \* localStorage 'funds', parsed
  refreshingRef,  \* the re-entrancy guard of refreshAll
  refreshing,     \* the in-progress indicator
  activeCycles,   \* refreshAll calls that passed the guard and have not finished
  uniqueCodes,    \* refreshAll: the codes of the running cycle
  rIdx,           \* refreshAll: position of the loop in uniqueCodes
  updated,        \* refreshAll: the batch collected so far
  loading,        \* addFund in progress (disables the add button)
  selectedCodes,  \* addFund: the requested codes
  aIdx,           \* addFund: position of the loop in selectedCodes
  closureFunds,   \* addFund: `funds` as captured by the handler's closure
  newFunds,       \* addFund: records fetched by the batch
  failures,       \* addFund: codes whose fetch was rejected
  attempted,      \* addFund: codes for which fetchFundData was called
  jsonpgz,        \* window.jsonpgz: the installed handler followed by the
                  \* handlers it restores (each handler's originalJsonpgz)
  scripts,        \* <script> requests of fetchFundData that are outstanding
  phase,          \* per caller: the state of its pending fetchFundData promise
  gzData,         \* per caller: payloads its handler has received
  event,          \* what the last task did (observation only)
  ops,            \* user and timer tasks so far
  preFunds,       \* observation: funds when the running cycle started
  cycleFailed,    \* observation: codes whose fetch was rejected in the cycle
  cycleRemoved,   \* observation: codes removed by the user during the cycle
  cycleAdded,     \* observation: records added by add/import during the cycle
  favorites,      \* the favorites Set, in insertion order
  storedFavorites,\* localStorage 'favorites', parsed
  collapsedCodes, \* the collapsed Set, in insertion order
  storedCollapsed,\* localStorage 'collapsedCodes', parsed
  refreshMs,      \* the refresh interval
  storedRefreshMs,\* localStorage 'refreshMs': the number its string denotes
  tempSeconds,    \* the seconds field of the settings dialog
  viewMode,       \* 'card' or 'list'
  storedViewMode, \* localStorage 'viewMode' ("" when there is none)
  exported,       \* the document written by the last exportLocalData
  doc,            \* observation: the document the last import task was given
  holdings,       \* per caller: the `holdings` array of its handler
  result,         \* per caller: how its fetchFundData promise was settled
  last,           \* observation: the last network event of a fetch
  calls,          \* observation: per caller, the codes its running batch has
                  \* called fetchFundData for, in order
  currentTab,     \* the selected tab of the list: "all" or "fav"
  search,         \* the search box: searchTerm, searchResults, isSearching,
                  \* the pending debounce timer and the requests in flight
  columns,        \* the stored customSettings and the column order states
                  \* of the PC table and of the mobile table
  table           \* a mounted PcFundTable: its props data, refreshing and
                  \* onRemoveFund, its onRemoveFundRef, and two observations:
                  \* the arguments onRemoveFund was called with, and the row
                  \* whose delete button was clicked last

vars == <<loaded, funds, storedFunds, refreshingRef, refreshing, activeCycles,
          uniqueCodes, rIdx, updated, loading, selectedCodes, aIdx, closureFunds,
          newFunds, failures, attempted, jsonpgz, scripts, phase, gzData, event, ops,
          preFunds, cycleFailed, cycleRemoved, cycleAdded,
          favorites, storedFavorites, collapsedCodes, storedCollapsed,
          refreshMs, storedRefreshMs, tempSeconds, viewMode, storedViewMode,
          exported, doc, holdings, result, last, calls, currentTab, search,
          columns, table>>

\* the state as one value, so that a task can be written as a composition
St == [loaded |-> loaded, funds |-> funds, storedFunds |-> storedFunds,
       refreshingRef |-> refreshingRef, refreshing |-> refreshing,
       activeCycles |-> activeCycles, uniqueCodes |-> uniqueCodes, rIdx |-> rIdx,
       updated |-> updated, loading |-> loading, selectedCodes |-> selectedCodes,
       aIdx |-> aIdx, closureFunds |-> closureFunds, newFunds |-> newFunds,
       failures |-> failures, attempted |-> attempted, jsonpgz |-> jsonpgz,
       scripts |-> scripts, phase |-> phase, gzData |-> gzData, event |-> event, ops |-> ops,
       preFunds |-> preFunds, cycleFailed |-> cycleFailed,
       cycleRemoved |-> cycleRemoved, cycleAdded |-> cycleAdded,
       favorites |-> favorites, storedFavorites |-> storedFavorites,
       collapsedCodes |-> collapsedCodes, storedCollapsed |-> storedCollapsed,
       refreshMs |-> refreshMs, storedRefreshMs |-> storedRefreshMs,
       tempSeconds |-> tempSeconds, viewMode |-> viewMode,
       storedViewMode |-> storedViewMode, exported |-> exported, doc |-> doc,
       holdings |-> holdings, result |-> result, last |-> last, calls |-> calls,
       currentTab |-> currentTab, search |-> search, columns |-> columns,
       table |-> table]

Apply(T) ==
  \E S \in {T} :
    /\ loaded' = S.loaded /\ funds' = S.funds /\ storedFunds' = S.storedFunds
    /\ refreshingRef' = S.refreshingRef /\ refreshing' = S.refreshing
    /\ activeCycles' = S.activeCycles /\ uniqueCodes' = S.uniqueCodes
    /\ rIdx' = S.rIdx /\ updated' = S.updated /\ loading' = S.loading
    /\ selectedCodes' = S.selectedCodes /\ aIdx' = S.aIdx
    /\ closureFunds' = S.closureFunds /\ newFunds' = S.newFunds
    /\ failures' = S.failures /\ attempted' = S.attempted /\ jsonpgz' = S.jsonpgz
    /\ scripts' = S.scripts /\ phase' = S.phase /\ gzData' = S.gzData
    /\ event' = S.event /\ ops' = S.ops /\ preFunds' = S.preFunds
    /\ cycleFailed' = S.cycleFailed /\ cycleRemoved' = S.cycleRemoved
    /\ cycleAdded' = S.cycleAdded
    /\ favorites' = S.favorites /\ storedFavorites' = S.storedFavorites
    /\ collapsedCodes' = S.collapsedCodes /\ storedCollapsed' = S.storedCollapsed
    /\ refreshMs' = S.refreshMs /\ storedRefreshMs' = S.storedRefreshMs
    /\ tempSeconds' = S.tempSeconds /\ viewMode' = S.viewMode
    /\ storedViewMode' = S.storedViewMode /\ exported' = S.exported /\ doc' = S.doc
    /\ holdings' = S.holdings /\ result' = S.result /\ last' = S.last
    /\ calls' = S.calls /\ currentTab' = S.currentTab /\ table' = S.table
    /\ search' = S.search /\ columns' = S.columns

\* The locals of a call that has returned are dead; they are kept for the one
\* state after the return (so that the result can be observed) and dropped by
\* the next task.
Collect(S) ==
  LET S1 == [S EXCEPT !.event = "none", !.doc = NoDoc, !.last = NoStep,
                      !.result = [p \in Procs |->
                                    IF S.result[p].state = "pending" THEN Pending
                                    ELSE NoResult]]
      S2 == IF S1.refreshingRef THEN S1
            ELSE [S1 EXCEPT !.uniqueCodes = <<>>, !.rIdx = 0, !.updated = <<>>,
                            !.preFunds = <<>>, !.cycleFailed = {},
                            !.cycleRemoved = {}, !.cycleAdded = {},
                            !.calls["refresh"] = <<>>]
  IN IF S2.loading THEN S2
     ELSE [S2 EXCEPT !.selectedCodes = <<>>, !.aIdx = 0, !.closureFunds = <<>>,
                     !.newFunds = <<>>, !.failures = <<>>, !.attempted = {},
                     !.calls["add"] = <<>>]

Cur == Collect(St)

\* the state at the start of a user or timer task
Task == [Cur EXCEPT !.ops = ops + 1]

SetWithoutPersist(S, list) == [S EXCEPT !.funds = list]

\* setFunds(list) followed by localStorage.setItem('funds', JSON.stringify(list));
\* the records hold strings and finite numbers, which JSON.parse gives back
SetAndPersist(S, list) == [S EXCEPT !.funds = list, !.storedFunds = list]

\* ------------------------------------------------- fetchFundData (JSONP)
\* lines 448-458, 541: capture window.jsonpgz, install the handler, append the
\* script. The handler is named by its caller; it stays so while the promise
\* is pending.
fetchFundData(S, p, c) ==
  [S EXCEPT !.jsonpgz = <<p>> \o S.jsonpgz,
            !.scripts = Append(S.scripts, [owner |-> p, code |-> c, orig |-> S.jsonpgz]),
            !.phase[p] = "gz",
            !.gzData[p] = {},
            !.calls[p] = Append(@, c)]

\* A settled handler at the bottom of the chain is dropped: called, it only
\* restores its predecessor (line 460) and its resolve/reject do nothing, which
\* is what a call of an undefined window.jsonpgz does to the caller's state.
RECURSIVE Live(_)
Live(chain) ==
  IF chain = <<>> THEN <<>>
  ELSE IF chain[Len(chain)] = Stale THEN Live(SubSeq(chain, 1, Len(chain) - 1))
  ELSE chain

Retag(chain, p) ==
  Live([i \in 1..Len(chain) |-> IF chain[i] = p THEN Stale ELSE chain[i]])

\* the promise of caller p is settled: its handler and its script closure can
\* no longer resolve or reject anything
Settled(S, p) ==
  [S EXCEPT !.jsonpgz = Retag(S.jsonpgz, p),
            !.scripts = [i \in 1..Len(S.scripts) |->
                           [owner |-> IF S.scripts[i].owner = p THEN Stale
                                      ELSE S.scripts[i].owner,
                            code |-> S.scripts[i].code,
                            orig |-> Retag(S.scripts[i].orig, p)]],
            !.phase[p] = "none",
            !.gzData[p] = {}]

\* --------------------------------------------------------------- refreshAll
refreshEnd(S) ==
  LET S1 == IF Len(S.updated) > 0
            THEN SetAndPersist(S, mergeUpdated(S.funds, S.updated))
            ELSE S
  IN [S1 EXCEPT !.refreshingRef = FALSE, !.refreshing = FALSE,
                !.activeCycles = S.activeCycles - 1, !.event = "cycleEnd"]

refreshLoopFromEnd(S) ==
  IF S.rIdx <= Len(S.uniqueCodes)
  THEN fetchFundData(S, "refresh", S.uniqueCodes[Len(S.uniqueCodes) + 1 - S.rIdx])
  ELSE refreshEnd(S)

refreshLoop(S) ==
  IF S.rIdx <= Len(S.uniqueCodes)
  THEN fetchFundData(S, "refresh", S.uniqueCodes[S.rIdx])
  ELSE refreshEnd(S)

\* the catch branch: the old record of the code, from the current state
withOld(S, c) ==
  LET i == findIndex(S.funds, c)
  IN IF i > 0 THEN Append(S.updated, S.funds[i]) ELSE S.updated

\* the loop body after the await: ok with a record, or the catch branch
refreshAfterFetch(S, ok, data) ==
  LET c == S.uniqueCodes[S.rIdx]
  IN refreshLoop([S EXCEPT !.updated = IF ok THEN Append(S.updated, data) ELSE withOld(S, c),
                           !.rIdx = S.rIdx + 1,
                           !.cycleFailed = IF ok THEN @ ELSE @ \cup {c}])

guardAbsent(S) == FALSE

\* line 646: the re-entrancy guard
guard(S) == S.refreshingRef

refreshAll(S, codes) ==
  IF guard(S) THEN [S EXCEPT !.event = "dropped"]
  ELSE refreshLoop([S EXCEPT !.refreshingRef = TRUE, !.refreshing = TRUE,
                             !.activeCycles = S.activeCycles + 1,
                             !.uniqueCodes = ArrayFromSet(codes), !.rIdx = 1,
                             !.updated = <<>>,
                             !.preFunds = S.funds, !.cycleFailed = {},
                             !.cycleRemoved = {}, !.cycleAdded = {}])

\* ------------------------------------------------------------------ addFund
addEnd(S) ==
  LET S1 == IF Len(S.newFunds) = 0 THEN S
            ELSE SetAndPersist(S, dedupeByCode(S.newFunds \o S.closureFunds))
  IN [S1 EXCEPT !.loading = FALSE, !.event = "addEnd",
                !.cycleAdded = IF S.refreshingRef /\ Len(S.newFunds) > 0
                               THEN (@ \cup Range(S.newFunds)) \cap Range(S1.funds)
                               ELSE @ \cap Range(S1.funds)]

RECURSIVE addLoop(_)
addLoop(S) ==
  IF S.aIdx > Len(S.selectedCodes) THEN addEnd(S)
  ELSE LET c == S.selectedCodes[S.aIdx]
       IN IF c \in CodesOf(S.closureFunds)
          THEN addLoop([S EXCEPT !.aIdx = S.aIdx + 1])
          ELSE fetchFundData([S EXCEPT !.attempted = @ \cup {c}], "add", c)

addAfterFetch(S, ok, data) ==
  LET c == S.selectedCodes[S.aIdx]
  IN addLoop([S EXCEPT !.newFunds = IF ok THEN Append(@, data) ELSE @,
                       !.failures = IF ok THEN @ ELSE Append(@, c),
                       !.aIdx = S.aIdx + 1])

\* lines 701-708: the tokens that are six digits
allTokens(typed) == typed

validTokens(typed) == SelectSeq(typed, LAMBDA t : t \in Codes)

addFund(S, selected, typed) ==
  LET codes == ArrayFromSet(selected \o validTokens(typed))
  IN IF Len(codes) = 0 THEN [S EXCEPT !.event = "addRejected"]
     ELSE addLoop([S EXCEPT !.loading = TRUE, !.selectedCodes = codes, !.aIdx = 1,
                            !.closureFunds = S.funds, !.newFunds = <<>>,
                            !.failures = <<>>, !.attempted = {}])

\* the continuation of the caller whose promise settles
settle(S, p, ok, data) ==
  IF p = "refresh" THEN refreshAfterFetch(Settled(S, p), ok, data)
  ELSE addAfterFetch(Settled(S, p), ok, data)

\* ------------------------------------------------------------------ actions
\* lines 386-405 of the mount effect: the interval, the collapsed and the
\* favorites Sets and the view mode, each adopted when its stored value is valid
loadSettings(S) ==
  LET savedMs == savedMsOf(S.storedRefreshMs)
      S1 == IF atLeastMin(savedMs)
            THEN [S EXCEPT !.refreshMs = savedMs, !.tempSeconds = roundSeconds(savedMs)]
            ELSE S
  IN [S1 EXCEPT !.collapsedCodes = ArrayFromSet(S.storedCollapsed),
                !.favorites = ArrayFromSet(S.storedFavorites),
                !.viewMode = IF S.storedViewMode \in {"card", "list"}
                             THEN S.storedViewMode ELSE @]

Load ==
  /\ ~loaded
  /\ LET S0 == loadSettings([Cur EXCEPT !.loaded = TRUE])
         deduped == dedupeByCode(storedFunds)
         codes == ArrayFromSet(codesOfList(deduped))
     IN Apply(IF Len(storedFunds) = 0 THEN S0
              ELSE IF Len(codes) = 0 THEN SetAndPersist(S0, deduped)
              ELSE refreshAll(SetAndPersist(S0, deduped), codes))

\* the interval callback, lines 411-414
TimerTick ==
  /\ loaded
  /\ ops < MaxOps
  /\ Len(funds) > 0
  /\ Apply(refreshAll(Task, ArrayFromSet(codesOfList(funds))))

\* lines 774-779; the button is disabled while refreshing (line 937)
ManualRefresh ==
  /\ loaded
  /\ ~refreshing /\ Len(funds) > 0
  /\ ~refreshingRef
  /\ ops < MaxOps
  /\ Apply(refreshAll(Task, ArrayFromSet(codesOfList(funds))))

\* the form's submit; the button is disabled while loading (line 986)
AddFund ==
  /\ loaded
  /\ ~loading
  /\ ops < MaxOps
  /\ \E selected \in SeqsUpTo(Codes, 1), typed \in SeqsUpTo(Codes \cup {BadToken}, MaxTyped) :
       Apply(addFund(Task, selected, typed))

without(codes, c) == SelectSeq(codes, LAMBDA x : x # c)

removeFundKeepFlags(S, c) == SetAndPersist(S, filterOut(S.funds, c))

\* removeFund: the list, then the collapsed and the favorites Sets (each is
\* written, with its stored copy, only when it holds the code)
removeFund(S, c) ==
  LET S1 == SetAndPersist(S, filterOut(S.funds, c))
      S2 == IF c \in Range(S1.collapsedCodes)
            THEN [S1 EXCEPT !.collapsedCodes = without(@, c),
                            !.storedCollapsed = without(S1.collapsedCodes, c)]
            ELSE S1
  IN IF c \in Range(S2.favorites)
     THEN [S2 EXCEPT !.favorites = without(@, c),
                     !.storedFavorites = without(S2.favorites, c),
                     !.currentTab = IF Len(without(S2.favorites, c)) = 0
                                    THEN "all" ELSE @]
     ELSE S2

RemoveFund ==
  /\ loaded
  /\ ops < MaxOps
  /\ \E c \in CodesOf(funds) :
       Apply([removeFund(Task, c)
                EXCEPT !.cycleRemoved = IF refreshingRef THEN @ \cup {c} ELSE @,
                       !.cycleAdded = {r \in @ : r.code # c},
                       !.event = "removed"])

\* the `if` blocks of handleImportFileChange for favorites, collapsedCodes,
\* refreshMs and viewMode (lines 866-886)
importSettings(S, d) ==
  LET mergedFav == ArrayFromSet(S.storedFavorites \o d.favorites)
      mergedCollapsed == ArrayFromSet(S.storedCollapsed \o d.collapsedCodes)
      S1 == IF d.favArr
            THEN [S EXCEPT !.favorites = mergedFav, !.storedFavorites = mergedFav]
            ELSE S
      S2 == IF d.colArr
            THEN [S1 EXCEPT !.collapsedCodes = mergedCollapsed,
                            !.storedCollapsed = mergedCollapsed]
            ELSE S1
      S3 == IF d.msNum /\ atLeastMin(d.refreshMs)
            THEN [S2 EXCEPT !.refreshMs = d.refreshMs,
                            !.tempSeconds = roundSeconds(d.refreshMs),
                            !.storedRefreshMs = d.refreshMs]
            ELSE S2
  IN IF d.viewMode \in {"card", "list"}
     THEN [S3 EXCEPT !.viewMode = d.viewMode, !.storedViewMode = d.viewMode]
     ELSE S3

parsesAnything(d) == TRUE

\* line 846: JSON.parse(text) returns (it throws otherwise)
parses(d) == d.kind # "unparseable"

\* lines 857-859: the incoming records whose code is not yet stored
newItemsOf(currentFunds, incoming) ==
  SelectSeq(dedupeByCode(incoming),
            LAMBDA f : f.code # NoCode /\ f.code \notin CodesOf(currentFunds))

mergeImportedOverwrite(currentFunds, incoming) == dedupeByCode(incoming)

\* line 861: mergedFunds
mergeImported(currentFunds, incoming) == currentFunds \o newItemsOf(currentFunds, incoming)

\* handleImportFileChange once the file's text is read: JSON.parse throws
\* (the catch branch sets importMsg), or the value is not an object (nothing
\* is done), or the fields of the object are merged
handleImportFileChange(S, d) ==
  LET currentFunds == S.storedFunds
      newItems == newItemsOf(currentFunds, d.funds)
      mergedFunds == mergeImported(currentFunds, d.funds)
      S1 == IF d.fundsArr
            THEN [SetAndPersist(S, mergedFunds)
                    EXCEPT !.cycleAdded = IF S.refreshingRef THEN @ \cup Range(newItems) ELSE @]
            ELSE S
      S2 == importSettings(S1, d)
  IN IF ~parses(d) THEN [S EXCEPT !.event = "importError"]
     ELSE IF d.kind = "nonObject" THEN S
     ELSE IF d.fundsArr /\ Len(newItems) > 0
          THEN refreshAll(S2, codesOfList(mergedFunds))
          ELSE S2

\* documents that hold a funds field only
FundDocs ==
  {mkDoc("object", fa, f, FALSE, <<>>, FALSE, <<>>, FALSE, NoMs, "") :
     fa \in BOOLEAN, f \in SeqsUpTo(DocRecs, MaxDoc)}

Import ==
  /\ loaded
  /\ ops < MaxOps
  /\ \E d \in FundDocs :
       /\ ~d.fundsArr => d.funds = <<>>
       /\ Apply([handleImportFileChange(Task, d) EXCEPT !.doc = d])

\* ------------------------------------------------- local data and settings
toggle(codes, c) == IF c \in Range(codes) THEN without(codes, c) ELSE Append(codes, c)

toggleFavoriteKeepTab(S, c) ==
  [S EXCEPT !.favorites = toggle(S.favorites, c),
            !.storedFavorites = toggle(S.favorites, c)]

\* toggleFavorite: back to the tab of all funds when no favorite is left
toggleFavorite(S, c) ==
  LET next == toggle(S.favorites, c)
  IN [S EXCEPT !.favorites = next, !.storedFavorites = next,
               !.currentTab = IF Len(next) = 0 THEN "all" ELSE @]

ToggleFavorite ==
  /\ loaded
  /\ ops < MaxOps
  /\ \E c \in CodesOf(funds) : Apply(toggleFavorite(Task, c))

\* the two tabs, rendered while funds are tracked and a favorite exists
SelectTab ==
  /\ loaded
  /\ Len(funds) > 0 /\ Len(favorites) > 0
  /\ \E t \in {"all", "fav"} :
       /\ t # currentTab
       /\ Apply([Cur EXCEPT !.currentTab = t])

ToggleCollapse ==
  /\ loaded
  /\ ops < MaxOps
  /\ \E c \in CodesOf(funds) :
       Apply([Task EXCEPT !.collapsedCodes = toggle(collapsedCodes, c),
                          !.storedCollapsed = toggle(collapsedCodes, c)])

ToggleViewMode ==
  /\ loaded
  /\ ops < MaxOps
  /\ LET nextMode == IF viewMode = "card" THEN "list" ELSE "card"
     IN Apply([Task EXCEPT !.viewMode = nextMode, !.storedViewMode = nextMode])

\* the seconds field of the settings dialog is edited
SetTempSeconds ==
  /\ loaded
  /\ ops < MaxOps
  /\ \E t \in SecondsTyped :
       /\ t # tempSeconds
       /\ Apply([Task EXCEPT !.tempSeconds = t])

saveSettings(S) ==
  [S EXCEPT !.refreshMs = msOfSeconds(S.tempSeconds),
            !.storedRefreshMs = msOfSeconds(S.tempSeconds),
            !.event = "saved"]

SaveSettings ==
  /\ loaded
  /\ ops < MaxOps
  /\ Apply(saveSettings(Task))

\* the payload of exportLocalData (lines 794-802), as JSON.parse reads it back
payload(S) ==
  mkDoc("object", TRUE, S.storedFunds, TRUE, S.storedFavorites,
        TRUE, S.storedCollapsed, TRUE, savedMsOf(S.storedRefreshMs),
        IF S.storedViewMode = "" THEN "card" ELSE S.storedViewMode)

ExportLocalData ==
  /\ loaded
  /\ ops < MaxOps
  /\ Apply([Task EXCEPT !.exported = payload(Task), !.event = "exported"])

fieldsOf(d) ==
  Cardinality({k \in {"funds", "favorites", "collapsedCodes", "refreshMs", "viewMode"} :
                 \/ k = "funds" /\ d.fundsArr
                 \/ k = "favorites" /\ d.favArr
                 \/ k = "collapsedCodes" /\ d.colArr
                 \/ k = "refreshMs" /\ d.msNum
                 \/ k = "viewMode" /\ d.viewMode # ""})

\* hand-written documents: malformed ones, and objects of few fields with
\* values that are and are not accepted
DataDocs ==
  {emptyDoc("unparseable"), emptyDoc("nonObject")} \cup
  {d \in {mkDoc("object", fa, f, va, v, ca, c, mn, m, vm) :
            fa \in BOOLEAN, f \in SeqsUpTo({Rec(x, OldVal) : x \in Codes}, MaxDoc),
            va \in BOOLEAN, v \in SeqsUpTo(Codes, MaxFav),
            ca \in BOOLEAN, c \in SeqsUpTo(Codes, MaxFav),
            mn \in BOOLEAN, m \in {NoMs, Whole(3000), Whole(60000), Num(MinMs, TRUE)},
            vm \in {"", "list", "grid"}} :
     /\ ~d.fundsArr => d.funds = <<>>
     /\ ~d.favArr => d.favorites = <<>>
     /\ ~d.colArr => d.collapsedCodes = <<>>
     /\ d.msNum = (d.refreshMs # NoMs)
     /\ fieldsOf(d) <= MaxFields}

\* an import of a hand-written document, or of the last exported one
ImportData ==
  /\ loaded
  /\ ops < MaxOps
  /\ \E d \in DataDocs \cup {exported} :
       /\ d # NoDoc
       /\ Apply([handleImportFileChange(Task, d) EXCEPT !.doc = d])

\* a script request fails: scriptGz.onerror, lines 535-539
ScriptError ==
  \E i \in 1..Len(scripts) :
    LET s == scripts[i]
        S1 == [Cur EXCEPT !.scripts = RemoveAt(scripts, i), !.jsonpgz = s.orig]
    IN Apply(IF s.owner \in Procs THEN settle(S1, s.owner, FALSE, Rec(NoCode, OldVal)) ELSE S1)

\* a script request loads and runs jsonpgz(payload): the installed handler,
\* lines 459-533, up to the holdings request
ScriptLoad ==
  \E i \in 1..Len(scripts), isObject \in BOOLEAN, v \in Vals :
    LET s == scripts[i]
        S1 == [Cur EXCEPT !.scripts = RemoveAt(scripts, i)]
        h == Head(jsonpgz)
        S2 == [S1 EXCEPT !.jsonpgz = Tail(jsonpgz)]
    IN /\ ~isObject => v = 1
       /\ Apply(IF jsonpgz = <<>> THEN [S1 EXCEPT !.event = "noCallback"]
                ELSE IF h \notin Procs THEN [S2 EXCEPT !.event = "noCallback"]
                ELSE IF ~isObject THEN settle(S2, h, FALSE, Rec(NoCode, OldVal))
                ELSE [S2 EXCEPT !.phase[h] = "holdings",
                                !.gzData[h] = @ \cup {Rec(s.code, v)}])

\* the holdings and quote requests of a fetch are over (whatever their
\* outcome): resolve({...gzData, holdings}), lines 531-532
SecondaryDone ==
  \E p \in Procs :
    /\ phase[p] = "holdings"
    /\ \E data \in gzData[p] :
         Apply(settle(Cur, p, TRUE, data))

\* a prop of PcFundTable that the parent may leave out
prop(given, value) == [given |-> given, value |-> value]
Omitted == prop(FALSE, FALSE)
NoRow == Rec(0, 0)

\* PcFundTable as mounted with its defaults: data = [], refreshing left out
InitTable ==
  table = [data |-> <<>>, refreshing |-> Omitted, onRemoveFund |-> FALSE,
           onRemoveFundRef |-> FALSE, removed |-> <<>>, clicked |-> NoRow]

\* the list of funds a search answered with: the query and how many funds
resultsOf(query, n) == [query |-> query, n |-> n]
NoResults == resultsOf("", 0)
timerOf(set, val) == [set |-> set, val |-> val]
NoTimer == timerOf(FALSE, "")

\* searchTerm '', searchResults [], isSearching false, no timer (lines 314-318)
InitSearch ==
  search = [searchTerm |-> "", searchResults |-> NoResults, isSearching |-> FALSE,
            searchTimeout |-> NoTimer, requests |-> <<>>]

\* the customSettings item of localStorage: missing, not JSON, or an object
\* whose pcTableColumnOrder and mobileTableColumnOrder may be arrays
settings(kind, pcArr, pcOrder, mobileArr, mobileOrder) ==
  [kind |-> kind, pcArr |-> pcArr, pcTableColumnOrder |-> pcOrder,
   mobileArr |-> mobileArr, mobileTableColumnOrder |-> mobileOrder]
NoSettings == settings("missing", FALSE, <<>>, FALSE, <<>>)

\* no table is mounted and nothing is stored
InitColumns ==
  columns = [customSettings |-> NoSettings,
             columnOrder |-> <<>>, mobileColumnOrder |-> <<>>,
             pcMounted |-> FALSE, mobileMounted |-> FALSE]

\* no fetchFundData call has been made
InitFetch ==
  /\ holdings = [p \in Procs |-> <<>>]
  /\ result = [p \in Procs |-> NoResult]
  /\ last = NoStep
  /\ calls = [p \in Procs |-> <<>>]

\* the local data before the mount effect: the useState defaults
InitSettings ==
  /\ favorites = <<>> /\ collapsedCodes = <<>>
  /\ refreshMs = Whole(DefaultMs) /\ tempSeconds = Whole(DefaultMs)
  /\ viewMode = "card" /\ currentTab = "all"
  /\ exported = NoDoc /\ doc = NoDoc

Init ==
  /\ loaded = FALSE
  /\ funds = <<>>
  /\ storedFunds \in SeqsUpTo(DocRecs, MaxDoc)
  /\ refreshingRef = FALSE /\ refreshing = FALSE /\ activeCycles = 0
  /\ uniqueCodes = <<>> /\ rIdx = 0 /\ updated = <<>>
  /\ loading = FALSE /\ selectedCodes = <<>> /\ aIdx = 0 /\ closureFunds = <<>>
  /\ newFunds = <<>> /\ failures = <<>> /\ attempted = {}
  /\ jsonpgz = <<>> /\ scripts = <<>>
  /\ phase = [p \in Procs |-> "none"]
  /\ gzData = [p \in Procs |-> {}]
  /\ event = "none" /\ ops = 0
  /\ preFunds = <<>> /\ cycleFailed = {} /\ cycleRemoved = {} /\ cycleAdded = {}
  /\ InitSettings
  /\ InitFetch
  /\ InitTable
  /\ InitSearch
  /\ InitColumns
  /\ storedFavorites = <<>> /\ storedCollapsed = <<>>
  /\ storedRefreshMs = NoMs /\ storedViewMode = ""

Next ==
  \/ Load
  \/ TimerTick
  \/ ManualRefresh
  \/ AddFund
  \/ RemoveFund
  \/ Import
  \/ ScriptError
  \/ ScriptLoad
  \/ SecondaryDone

Spec == Init /\ [][Next]_vars

\* ---------------------------------- the local data: settings, export, import
\* What localStorage holds at the mount: nothing (first visit), the data of
\* an earlier session, or an interval and a view mode that must not be adopted.
profile(f, v, c, m, vm) ==
  [funds |-> f, favorites |-> v, collapsedCodes |-> c, refreshMs |-> m, viewMode |-> vm]

StoredProfiles ==
  {profile(<<>>, <<>>, <<>>, NoMs, ""),
   profile(<<Rec(1, OldVal), Rec(NumCodes, OldVal)>>, <<1>>, <<1>>, Whole(10000), "list"),
   profile(<<Rec(1, OldVal)>>, <<>>, <<>>, Whole(3000), "grid")}

DataInit ==
  /\ loaded = FALSE
  /\ funds = <<>>
  /\ refreshingRef = FALSE /\ refreshing = FALSE /\ activeCycles = 0
  /\ uniqueCodes = <<>> /\ rIdx = 0 /\ updated = <<>>
  /\ loading = FALSE /\ selectedCodes = <<>> /\ aIdx = 0 /\ closureFunds = <<>>
  /\ newFunds = <<>> /\ failures = <<>> /\ attempted = {}
  /\ jsonpgz = <<>> /\ scripts = <<>>
  /\ phase = [p \in Procs |-> "none"]
  /\ gzData = [p \in Procs |-> {}]
  /\ event = "none" /\ ops = 0
  /\ preFunds = <<>> /\ cycleFailed = {} /\ cycleRemoved = {} /\ cycleAdded = {}
  /\ InitSettings
  /\ InitFetch
  /\ InitTable
  /\ InitSearch
  /\ InitColumns
  /\ \E p \in StoredProfiles :
       /\ storedFunds = p.funds
       /\ storedFavorites = p.favorites
       /\ storedCollapsed = p.collapsedCodes
       /\ storedRefreshMs = p.refreshMs
       /\ storedViewMode = p.viewMode

DataNext ==
  \/ Load
  \/ ToggleFavorite
  \/ SelectTab
  \/ ToggleCollapse
  \/ ToggleViewMode
  \/ SetTempSeconds
  \/ SaveSettings
  \/ ExportLocalData
  \/ ImportData
  \/ RemoveFund
  \/ ScriptError
  \/ ScriptLoad
  \/ SecondaryDone

DataSpec == DataInit /\ [][DataNext]_vars

\* ------------------------------------------------------------------ claims
NoDup(list) == \A i, j \in 1..Len(list) : i # j => list[i].code # list[j].code
RecOf(list, c) == list[findIndex(list, c)]

\* C1: in every reachable state the tracked list holds at most one record per
\* code (and no record without a code).
C1_OneRecordPerCode == NoDup(funds) /\ NoCode \notin CodesOf(funds)

\* C1 witness: a list of two funds after a completed cycle that followed
\* further user tasks
C1_Witness == event = "cycleEnd" /\ Len(funds) >= 2 /\ ops >= 2

\* C3: at most one refresh cycle is running at any time, whatever triggered it.
C3_AtMostOneCycle ==
  /\ activeCycles <= 1
  /\ (activeCycles = 1) = refreshingRef
  /\ phase["refresh"] # "none" => refreshingRef

\* C3 witness: a second trigger arrived while a cycle was running
C3_Witness == event = "dropped" /\ refreshingRef /\ activeCycles = 1 /\ phase["refresh"] = "gz"

cycleVars == <<refreshingRef, refreshing, activeCycles, uniqueCodes, rIdx, updated,
               jsonpgz, scripts, phase, gzData>>

\* C4: a refreshAll call made while a cycle is running is a no-op: it starts no
\* fetch, leaves the tracked list, the storage and the running cycle as they
\* are (an import's own merge apart), and no cycle ever starts but in the task
\* of a trigger that found the guard released.
C4_ReentrantCallIsNoOp ==
  [][/\ (refreshingRef /\ TimerTick) => UNCHANGED <<funds, storedFunds, cycleVars>>
     /\ (refreshingRef /\ Import) => UNCHANGED cycleVars
     /\ (activeCycles' > activeCycles) =>
          (~refreshingRef /\ (Load \/ TimerTick \/ ManualRefresh \/ Import))]_vars

\* C4 witness: a call was dropped while the cycle had a fetch in its second phase
C4_Witness == event = "dropped" /\ refreshingRef /\ phase["refresh"] = "holdings"

\* C6: once loaded, the persisted 'funds' value equals the tracked list after
\* every task.
C6_StorageEqualsState == loaded => storedFunds = funds

\* C6 witness: an add batch has written its result
C6_Witness == event = "addEnd" /\ Len(newFunds) > 0 /\ Len(funds) >= 2

\* ------------------------------------------- the merge as a pure function
\* Every tracked list L (no duplicate, every record with a code) and every
\* batch B; MergeStep applies the updater of refreshAll to them.
AllRecs == FetchedRecs \cup {Rec(c, OldVal) : c \in Codes}
TrackedLists == {l \in SeqsUpTo(AllRecs, NumCodes) : NoDup(l)}

MergeInit ==
  /\ funds \in TrackedLists
  /\ updated \in SeqsUpTo(AllRecs, MaxBatch)
  /\ preFunds = funds
  /\ storedFunds = funds
  /\ loaded = TRUE
  /\ refreshingRef = TRUE /\ refreshing = TRUE /\ activeCycles = 1
  /\ uniqueCodes = <<>> /\ rIdx = 0
  /\ loading = FALSE /\ selectedCodes = <<>> /\ aIdx = 0 /\ closureFunds = <<>>
  /\ newFunds = <<>> /\ failures = <<>> /\ attempted = {}
  /\ jsonpgz = <<>> /\ scripts = <<>>
  /\ phase = [p \in Procs |-> "none"]
  /\ gzData = [p \in Procs |-> {}]
  /\ event = "none" /\ ops = 0
  /\ cycleFailed = {} /\ cycleRemoved = {} /\ cycleAdded = {}
  /\ InitSettings
  /\ InitFetch
  /\ InitTable
  /\ InitSearch
  /\ InitColumns
  /\ storedFavorites = <<>> /\ storedCollapsed = <<>>
  /\ storedRefreshMs = NoMs /\ storedViewMode = ""

\* lines 667-689 on the batch `updated`
MergeStep ==
  /\ refreshingRef
  /\ Apply(refreshEnd(St))

MergeNext == MergeStep

MergeSpec == MergeInit /\ [][MergeNext]_vars

\* the last record of batch B that has code c
RECURSIVE LastOf(_, _)
LastOf(B, c) == IF B[Len(B)].code = c THEN B[Len(B)] ELSE LastOf(SubSeq(B, 1, Len(B) - 1), c)

\* C7: the merge of batch B into tracked list L leaves every entry of L whose
\* code is not in B unchanged at its position, replaces in place every entry
\* whose code is in B by B's record of that code, and has no duplicate code.
C7_MergeCorrect ==
  event = "cycleEnd" =>
    /\ Len(funds) >= Len(preFunds)
    /\ \A i \in 1..Len(preFunds) :
         IF preFunds[i].code \in CodesOf(updated)
         THEN funds[i] = LastOf(updated, preFunds[i].code)
         ELSE funds[i] = preFunds[i]
    /\ NoDup(funds)
    /\ storedFunds = funds

\* C7 witness: a merge that replaced one entry and left another untouched
C7_Witness ==
  /\ event = "cycleEnd" /\ Len(preFunds) = 2 /\ Len(updated) > 0
  /\ preFunds[1].code \notin CodesOf(updated)
  /\ preFunds[2].code \in CodesOf(updated) /\ funds[2] # preFunds[2]

\* ------------------------------------------------ claims on concurrent tasks
\* C2: if the fetch for code c is rejected during a refresh cycle and c was
\* tracked before the cycle (and the user did not remove c meanwhile), the
\* list after the cycle holds the pre-cycle record of c.
C2_FailedFetchKeepsRecord ==
  event = "cycleEnd" =>
    \A c \in cycleFailed \ cycleRemoved :
      c \in CodesOf(preFunds) =>
        (c \in CodesOf(funds) /\ RecOf(funds, c) = RecOf(preFunds, c))

\* C8 as claimed: a record added (add or import) while the cycle was in
\* flight is in the tracked list, unchanged, after the cycle's merge.
C8_AddedRecordUnchanged ==
  event = "cycleEnd" => \A r \in cycleAdded : r \in Range(funds)

\* C8 amended: a fund added while the cycle was in flight, and in the tracked
\* list when the merge runs, is still tracked after the merge; its record is
\* unchanged unless the cycle's batch holds a record of its code, which then
\* replaces it.
C8_AddedFundKept ==
  event = "cycleEnd" =>
    \A r \in cycleAdded :
      /\ r.code \in CodesOf(funds)
      /\ IF r.code \in CodesOf(updated)
         THEN RecOf(funds, r.code) = LastOf(updated, r.code)
         ELSE r \in Range(funds)

\* C8 witness: a merge was applied over a list holding a fund added mid-flight
\* whose code is not in the batch
C8_Witness ==
  /\ event = "cycleEnd" /\ Len(updated) > 0
  /\ \E r \in cycleAdded : r.code \notin CodesOf(updated) /\ r.code \notin CodesOf(preFunds)

\* C9: at the end of an add batch every code that was fetched is either added
\* (its record is in newFunds and in the tracked list) or listed in failures,
\* never both and never neither.
C9_AddedOrFailed ==
  event = "addEnd" =>
    \A c \in attempted :
      (c \in CodesOf(newFunds) /\ c \in CodesOf(funds)) # (c \in Range(failures))

\* C10: a requested code that was already tracked is not fetched, is counted
\* neither as added nor as failed, gets no duplicate, and the batch's write
\* leaves its record as it was.
C10_AddSkip ==
  [][event' = "addEnd" =>
       \A c \in Range(selectedCodes') \cap CodesOf(closureFunds') :
         /\ c \notin attempted'
         /\ c \notin CodesOf(newFunds') /\ c \notin Range(failures')
         /\ NoDup(funds')
         /\ c \in CodesOf(funds) =>
              (c \in CodesOf(funds') /\ RecOf(funds', c) = RecOf(funds, c))]_vars

\* the pending fetch of the running cycle can still be settled: its handler
\* is installed or will be restored, or its own script is outstanding
RefreshHandlerReachable ==
  \/ "refresh" \in Range(jsonpgz)
  \/ \E i \in 1..Len(scripts) :
       scripts[i].owner = "refresh" \/ "refresh" \in Range(scripts[i].orig)

\* C5: every cycle that is running eventually ends with the guard released and
\* the indicator false. As a property of finite runs: a running cycle is never
\* left with a pending fetch that nothing can settle any more (no later task
\* can install its handler again, and every later script captures a chain
\* without it).
C5_CycleCanEnd ==
  (refreshingRef \/ refreshing) =>
    (phase["refresh"] = "holdings" \/ RefreshHandlerReachable)

C18_NonSixDigitRejected ==
  /\ [](/\ \A i \in 1..Len(scripts) : scripts[i].code \in Codes
        /\ \A p \in Procs : Range(calls[p]) \subseteq Codes
        /\ attempted \subseteq Codes
        /\ (loading \/ event = "addEnd") =>
              (Len(selectedCodes) > 0 /\ Range(selectedCodes) \subseteq Codes))
  /\ [][event' = "addRejected" =>
          /\ funds' = funds /\ storedFunds' = storedFunds
          /\ ~loading' /\ calls'["add"] = <<>> /\ phase'["add"] = phase["add"]
          /\ \A i \in 1..Len(scripts') : scripts'[i].owner # "add"
          /\ Len(scripts') <= Len(scripts)]_vars

\* C18 witness: an add was rejected while funds are tracked and a refresh
\* cycle is waiting for its request
C18_Witness ==
  /\ event = "addRejected" /\ Len(funds) = 2
  /\ refreshingRef /\ Len(scripts) = 1 /\ ops = MaxOps

\* C19: when an add batch that fetched at least one record ends, the tracked
\* list becomes the batch's new records in fetch order followed by the records
\* tracked just before, in their order, with only the first record of each
\* code kept, and the stored list is that list.
C19_AddPrepends ==
  [][(event' = "addEnd" /\ Len(newFunds') > 0) =>
       /\ funds' = dedupeByCode(newFunds' \o funds)
       /\ storedFunds' = funds']_vars

\* how many times code c is in the sequence
Count(codes, c) == Cardinality({i \in 1..Len(codes) : codes[i] = c})
UpTo(codes, i) == SubSeq(codes, 1, IF i < Len(codes) THEN i ELSE Len(codes))

\* C16: a rejected fetch never ends a batch. While a refresh cycle runs, and
\* when it ends, fetchFundData has been called exactly once for each code up
\* to the loop's position, in the order of the distinct requested codes, and
\* at the end for every one of them; the same for an add batch and its
\* requested codes that were not skipped as already tracked.
C16_BatchNeverAborts ==
  /\ (refreshingRef \/ event = "cycleEnd") =>
       /\ calls["refresh"] = UpTo(uniqueCodes, rIdx)
       /\ \A c \in Range(uniqueCodes) : Count(uniqueCodes, c) = 1
       /\ event = "cycleEnd" =>
            \A c \in Range(uniqueCodes) : Count(calls["refresh"], c) = 1
  /\ (loading \/ event = "addEnd") =>
       /\ calls["add"] = SelectSeq(UpTo(selectedCodes, aIdx),
                                   LAMBDA c : c \notin CodesOf(closureFunds))
       /\ \A c \in Range(selectedCodes) : Count(selectedCodes, c) = 1
       /\ event = "addEnd" =>
            \A c \in Range(selectedCodes) :
              Count(calls["add"], c) = IF c \in CodesOf(closureFunds) THEN 0 ELSE 1

\* C16 witness: a cycle over two codes has ended; the fetch of the first code
\* was rejected and the second code was fetched after it
C16_Witness ==
  /\ event = "cycleEnd" /\ Len(uniqueCodes) = 2
  /\ uniqueCodes[1] \in cycleFailed
  /\ calls["refresh"] = uniqueCodes
  /\ uniqueCodes[2] \in CodesOf(updated)

\* C21: within a refresh cycle the distinct codes are fetched one at a time
\* in the order of their first occurrence in the list the cycle was started
\* for: while the cycle runs exactly one of its fetches is unsettled, the one
\* of the code at the loop's position, the calls made so far are the codes
\* before and at that position, and a next call is made only in the step in
\* which the previous fetch settles.
C21_SequentialInOrder ==
  /\ [](refreshingRef =>
          /\ rIdx \in 1..Len(uniqueCodes)
          /\ phase["refresh"] # "none"
          /\ calls["refresh"] = SubSeq(uniqueCodes, 1, rIdx)
          /\ Range(uniqueCodes) = CodesOf(preFunds)
          /\ \A i, j \in 1..Len(uniqueCodes) :
               i < j => /\ uniqueCodes[i] # uniqueCodes[j]
                        /\ findIndex(preFunds, uniqueCodes[i])
                             < findIndex(preFunds, uniqueCodes[j]))
  /\ [][(refreshingRef /\ refreshingRef' /\ calls'["refresh"] # calls["refresh"]) =>
          /\ rIdx' = rIdx + 1
          /\ calls'["refresh"] = Append(calls["refresh"], uniqueCodes[rIdx'])
          /\ uniqueCodes' = uniqueCodes
          /\ phase'["refresh"] = "gz"
          /\ Len(updated') + Cardinality(cycleFailed')
               > Len(updated) + Cardinality(cycleFailed)
               \/ uniqueCodes[rIdx] \in cycleFailed']_vars

\* C21 witness: the fetch of the first of two codes resolved and the fetch of
\* the second one is in flight
C21_Witness ==
  /\ refreshingRef /\ Len(uniqueCodes) = 2 /\ rIdx = 2
  /\ calls["refresh"] = uniqueCodes /\ phase["refresh"] = "gz"
  /\ Len(updated) = 1 /\ cycleFailed = {} /\ ~loading

\* C24: when a refresh cycle ends, its merge has put no code into the tracked
\* list or into the stored list that was not tracked when the merge ran: a
\* fund removed while the cycle was in flight stays removed.
C24_RemovedStaysRemoved ==
  [][event' = "cycleEnd" =>
       /\ CodesOf(funds') \subseteq CodesOf(funds)
       /\ CodesOf(storedFunds') \subseteq CodesOf(funds)]_vars

\* C25: when an add batch ends, its write is built from the tracked list of
\* that moment: no code comes back that is neither tracked nor newly fetched,
\* no tracked code is lost, and a tracked record whose code the batch did not
\* fetch keeps its value.
C25_AddKeepsChanges ==
  [][event' = "addEnd" =>
       /\ CodesOf(funds') \subseteq CodesOf(funds) \cup CodesOf(newFunds')
       /\ CodesOf(funds) \subseteq CodesOf(funds')
       /\ \A i \in 1..Len(funds) :
            funds[i].code \notin CodesOf(newFunds') => funds[i] \in Range(funds')
       /\ storedFunds' = funds']_vars

\* C27: in every state every favorite code and every collapsed code is the
\* code of a record of the tracked list.
C27_FlagsAreTracked ==
  /\ Range(favorites) \subseteq CodesOf(funds)
  /\ Range(collapsedCodes) \subseteq CodesOf(funds)

\* C28: the favorites tab is never selected while there is no favorite, and
\* a step that leaves no favorite leaves the tab of all funds selected.
C28_FavTabHasFavorites ==
  /\ [](currentTab = "fav" => Len(favorites) > 0)
  /\ [][Len(favorites') = 0 => currentTab' = "all"]_vars

\* C28 witness: on the favorites tab, with two favorites, one of the two
\* funds was removed: the other favorite is left and the tab stays
C28_Witness ==
  /\ currentTab = "fav" /\ event = "removed"
  /\ favorites = <<NumCodes>> /\ storedFavorites = <<NumCodes>>
  /\ CodesOf(funds) = {NumCodes}

\* ----------------------------------------------- fetchFundData in detail
\* Calls of fetchFundData by the two callers of the page (the refresh cycle
\* and the add batch, each awaiting one call at a time), with the holdings
\* and the quote requests of each call.
HoldingsLimit == 10  \* holdings.slice(0, 10), line 495

\* h.slice(0, k)
slice(h, k) == SubSeq(h, 1, IF Len(h) < k THEN Len(h) ELSE k)

\* the rows of a holdings table that have a code and a weight, change: null
rowsOf(n) == [i \in 1..n |-> "null"]
RowCounts == {0, 1, MaxRows - 1, MaxRows}

resolvedIntoList(S, p, data) ==
  SetAndPersist([Settled(S, p) EXCEPT !.result[p] = outcome("resolved", {data}, S.holdings[p]),
                                      !.holdings[p] = <<>>],
                Append(S.funds, data))

\* resolve({...gzData, holdings}) and reject(...) of the caller's promise
resolved(S, p, data) ==
  [Settled(S, p) EXCEPT !.result[p] = outcome("resolved", {data}, S.holdings[p]),
                        !.holdings[p] = <<>>]

rejected(S, p) ==
  [Settled(S, p) EXCEPT !.result[p] = outcome("rejected", {}, <<>>),
                        !.holdings[p] = <<>>]

Call ==
  /\ ops < MaxOps
  /\ \E p \in Procs, c \in Codes :
       /\ phase[p] = "none"
       /\ Apply([fetchFundData(Task, p, c) EXCEPT !.result[p] = Pending])

\* scriptGz.onerror, lines 535-539
GzError ==
  \E i \in 1..Len(scripts) :
    LET s == scripts[i]
        S1 == [Cur EXCEPT !.scripts = RemoveAt(scripts, i), !.jsonpgz = s.orig,
                          !.last = step("gzError", s.owner, s.owner, FALSE)]
    IN Apply(IF s.owner \in Procs THEN rejected(S1, s.owner) ELSE S1)

\* the valuation script runs jsonpgz(payload): whatever handler is installed
\* is called (lines 459-477), or none is
GzLoad ==
  \E i \in 1..Len(scripts), isObject \in BOOLEAN, v \in Vals :
    LET s == scripts[i]
        h == IF jsonpgz = <<>> THEN "nobody" ELSE Head(jsonpgz)
        S1 == [Cur EXCEPT !.scripts = RemoveAt(scripts, i),
                          !.last = step("gzLoad", s.owner, h, isObject)]
        S2 == [S1 EXCEPT !.jsonpgz = Tail(jsonpgz)]
    IN /\ ~isObject => v = 1
       /\ Apply(IF jsonpgz = <<>> THEN S1
                ELSE IF h \notin Procs THEN S2
                ELSE IF ~isObject THEN rejected(S2, h)
                ELSE [S2 EXCEPT !.phase[h] = IF @ = "gz" THEN "holdings" ELSE @,
                                !.gzData[h] = @ \cup {Rec(s.code, v)}])

\* loadScript(holdingsUrl) resolves: the rows are parsed and cut (lines
\* 478-495); without holdings the promise is resolved at once
HoldingsLoad ==
  \E p \in Procs, n \in RowCounts, data \in FetchedRecs :
    /\ phase[p] = "holdings"
    /\ data \in gzData[p]
    /\ LET S1 == [Cur EXCEPT !.holdings[p] = slice(rowsOf(n), HoldingsLimit),
                             !.last = step("holdingsLoad", p, p, FALSE)]
       IN Apply(IF Len(S1.holdings[p]) = 0 THEN resolved(S1, p, data)
                ELSE [S1 EXCEPT !.phase[p] = "quote"])

\* loadScript(holdingsUrl) rejects: the catch of line 532
HoldingsError ==
  \E p \in Procs, data \in FetchedRecs :
    /\ phase[p] = "holdings"
    /\ data \in gzData[p]
    /\ Apply(resolved([Cur EXCEPT !.holdings[p] = <<>>,
                                  !.last = step("holdingsError", p, p, FALSE)], p, data))

\* scriptQuote.onload: the holdings whose quote variable is there get a change
QuoteLoad ==
  \E p \in Procs, data \in FetchedRecs :
    /\ phase[p] = "quote"
    /\ data \in gzData[p]
    /\ \E known \in {{}, {1}, 1..Len(holdings[p])} :
         Apply(resolved([Cur EXCEPT !.holdings[p] =
                                      [i \in 1..Len(holdings[p]) |->
                                         IF i \in known THEN "number" ELSE "null"],
                                    !.last = step("quoteLoad", p, p, FALSE)], p, data))

\* scriptQuote.onerror, lines 520-523
QuoteError ==
  \E p \in Procs, data \in FetchedRecs :
    /\ phase[p] = "quote"
    /\ data \in gzData[p]
    /\ Apply(resolved([Cur EXCEPT !.last = step("quoteError", p, p, FALSE)], p, data))

FetchInit ==
  /\ loaded = TRUE
  /\ funds \in {<<>>, <<Rec(1, OldVal)>>} /\ storedFunds = funds
  /\ refreshingRef = FALSE /\ refreshing = FALSE /\ activeCycles = 0
  /\ uniqueCodes = <<>> /\ rIdx = 0 /\ updated = <<>>
  /\ loading = FALSE /\ selectedCodes = <<>> /\ aIdx = 0 /\ closureFunds = <<>>
  /\ newFunds = <<>> /\ failures = <<>> /\ attempted = {}
  /\ jsonpgz = <<>> /\ scripts = <<>>
  /\ phase = [p \in Procs |-> "none"]
  /\ gzData = [p \in Procs |-> {}]
  /\ event = "none" /\ ops = 0
  /\ preFunds = <<>> /\ cycleFailed = {} /\ cycleRemoved = {} /\ cycleAdded = {}
  /\ InitSettings
  /\ InitFetch
  /\ InitTable
  /\ InitSearch
  /\ InitColumns
  /\ storedFavorites = <<>> /\ storedCollapsed = <<>>
  /\ storedRefreshMs = NoMs /\ storedViewMode = ""

FetchNext ==
  \/ Call
  \/ GzError
  \/ GzLoad
  \/ HoldingsLoad
  \/ HoldingsError
  \/ QuoteLoad
  \/ QuoteError

FetchSpec == FetchInit /\ [][FetchNext]_vars

\* C15: a fetch is rejected only by the error of its own valuation request or
\* by a non-object payload of it; when its valuation request delivers an
\* object, the fetch goes on to its secondary requests (and is then resolved
\* whatever they do); a failed holdings request gives holdings = [], a failed
\* quote request leaves every change null, and there are never more than 10
\* holdings.
C15_FetchFailsOnlyOnPrimary ==
  \A p \in Procs :
    /\ result[p].state = "rejected" =>
         /\ last.owner = p
         /\ last.kind = "gzError" \/ (last.kind = "gzLoad" /\ ~last.isObject)
    /\ (last.kind = "gzLoad" /\ last.owner = p /\ last.isObject) =>
         phase[p] \in {"holdings", "quote"}
    /\ result[p].state = "resolved" =>
         /\ Len(result[p].holdings) <= HoldingsLimit
         /\ last.kind = "holdingsError" => result[p].holdings = <<>>
         /\ last.kind = "quoteError" =>
              \A i \in 1..Len(result[p].holdings) : result[p].holdings[i] = "null"

\* ------------------------------------------------- claims on the local data
\* the records of `incoming` whose code is not tracked, first occurrences only,
\* in the order of `incoming`
RECURSIVE NewInOrder(_, _)
NewInOrder(incoming, seen) ==
  IF incoming = <<>> THEN <<>>
  ELSE IF Head(incoming).code \in seen \cup {NoCode}
       THEN NewInOrder(Tail(incoming), seen)
       ELSE <<Head(incoming)>> \o NewInOrder(Tail(incoming), seen \cup {Head(incoming).code})

\* C11: an import of an object document is a union-merge: the tracked list
\* keeps every record it had, unchanged and in place; the incoming records
\* with new codes follow them in incoming order and those with a tracked code
\* are ignored; favorites and collapsed become the union of current and incoming.
C11_ImportIsUnionMerge ==
  [][(doc' # NoDoc /\ doc'.kind = "object") =>
       /\ Len(funds') >= Len(funds)
       /\ SubSeq(funds', 1, Len(funds)) = funds
       /\ SubSeq(funds', Len(funds) + 1, Len(funds')) =
            (IF doc'.fundsArr THEN NewInOrder(doc'.funds, CodesOf(funds)) ELSE <<>>)
       /\ storedFunds' = funds'
       /\ Range(favorites') =
            Range(favorites) \cup (IF doc'.favArr THEN Range(doc'.favorites) ELSE {})
       /\ Range(collapsedCodes') =
            Range(collapsedCodes) \cup (IF doc'.colArr THEN Range(doc'.collapsedCodes) ELSE {})]_vars

\* C11 witness: an import whose document held a tracked code (the refreshed
\* record stayed) and a new one (appended)
C11_Witness ==
  /\ doc # NoDoc /\ doc.kind = "object" /\ doc.fundsArr
  /\ Len(funds) = 2 /\ Len(doc.funds) = 2
  /\ funds[1].code = doc.funds[1].code /\ funds[1] # doc.funds[1]
  /\ funds[2] = doc.funds[2]

\* C12: importing the document that exportLocalData produced, in a state whose
\* stored data is what was exported, leaves the tracked list, the favorites,
\* the collapsed set, the refresh interval and the view mode as they were
\* when the export was taken.
C12_RoundTrip ==
  [][(doc' # NoDoc /\ doc' = exported /\ exported = payload(St)) =>
       /\ funds' = funds
       /\ Range(favorites') = Range(favorites)
       /\ Range(collapsedCodes') = Range(collapsedCodes)
       /\ refreshMs' = refreshMs
       /\ viewMode' = viewMode]_vars

\* the tracked list, the flags and the settings, with their stored copies
dataVars == <<funds, storedFunds, favorites, storedFavorites, collapsedCodes,
              storedCollapsed, refreshMs, storedRefreshMs, tempSeconds, viewMode,
              storedViewMode>>

\* C13: an import of a document that does not parse is reported (the catch
\* branch sets the message) and changes nothing: the list, the favorites, the
\* collapsed set, the interval, the view mode and their stored copies are as
\* before, and no refresh cycle is started. A document that parses to a value
\* that is not an object changes nothing either.
C13_MalformedImportChangesNothing ==
  [][(doc' # NoDoc /\ doc'.kind # "object") =>
       /\ doc'.kind = "unparseable" => event' = "importError"
       /\ UNCHANGED dataVars
       /\ UNCHANGED <<refreshingRef, refreshing, activeCycles, scripts, jsonpgz, phase>>]_vars

\* C13 witness: a document that does not parse was imported over tracked
\* funds and favorites
C13_Witness ==
  /\ doc.kind = "unparseable" /\ event = "importError"
  /\ Len(funds) > 0 /\ Len(favorites) > 0

\* C14: right after removeFund(c) the code c is in none of the tracked list,
\* the favorites and the collapsed set, in memory and in storage, and every
\* other record (in its order) and every other favorite and collapsed code is
\* as it was.
C14_RemovalCascades ==
  [][event' = "removed" =>
       \E c \in CodesOf(funds) :
         /\ c \notin CodesOf(funds') \cup Range(favorites') \cup Range(collapsedCodes')
         /\ c \notin CodesOf(storedFunds') \cup Range(storedFavorites')
                      \cup Range(storedCollapsed')
         /\ funds' = SelectSeq(funds, LAMBDA f : f.code # c)
         /\ storedFunds' = funds'
         /\ Range(favorites') = Range(favorites) \ {c}
         /\ Range(storedFavorites') = Range(storedFavorites) \ {c}
         /\ Range(collapsedCodes') = Range(collapsedCodes) \ {c}
         /\ Range(storedCollapsed') = Range(storedCollapsed) \ {c}]_vars

\* C14 witness: the first task after the mount removed fund 1 of the stored
\* session, which was a favorite and collapsed
C14_Witness ==
  /\ event = "removed" /\ ops = 1 /\ cycleRemoved = {1}
  /\ CodesOf(funds) = {NumCodes}
  /\ favorites = <<>> /\ storedFavorites = <<>>
  /\ collapsedCodes = <<>> /\ storedCollapsed = <<>>
  /\ storedViewMode = "list"

\* ------------------------------------------------------------- PcFundTable
\* refreshing = false in the parameter list: the default of a prop left out
refreshingProp(r) == IF r.given THEN r.value ELSE FALSE

\* the parent renders the table with new props; the columns are recomputed
\* with the new refreshing (it is a dependency of their memo) and the effect
\* stores the new onRemoveFund in its ref before any later click is handled
Rows == {Rec(c, OldVal) : c \in Codes}
PropValues == {Omitted, prop(TRUE, FALSE), prop(TRUE, TRUE)}

Render ==
  \E d \in SeqsUpTo(Rows, MaxDoc), r \in PropValues, cb \in BOOLEAN :
    Apply([St EXCEPT !.table = [table EXCEPT !.data = d, !.refreshing = r,
                                             !.onRemoveFund = cb,
                                             !.onRemoveFundRef = cb,
                                             !.clicked = NoRow]])

handleClickUnguarded(T, original) ==
  IF T.onRemoveFundRef THEN [T EXCEPT !.removed = Append(@, original)] ELSE T

\* handleClick of the actions cell: nothing while refreshing, else
\* onRemoveFundRef.current?.(original)
handleClick(T, original) ==
  IF refreshingProp(T.refreshing) THEN T
  ELSE IF T.onRemoveFundRef THEN [T EXCEPT !.removed = Append(@, original)]
  ELSE T

\* disabled={refreshing} of the delete button
disabled(T) == refreshingProp(T.refreshing)

\* a click on the delete button of row i. A click of the user on a disabled
\* button is not delivered; a click event dispatched by a script on a disabled
\* button is delivered by some browsers and not by others.
ClickDelete ==
  /\ Len(table.removed) < MaxOps
  /\ \E i \in 1..Len(table.data), delivered \in BOOLEAN :
       /\ ~disabled(table) => delivered
       /\ LET original == table.data[i]
              T == IF delivered THEN handleClick(table, original) ELSE table
          IN Apply([St EXCEPT !.table = [T EXCEPT !.clicked = original]])

TableNext == Render \/ ClickDelete

TableSpec == Init /\ [][TableNext]_vars

\* C20: a click on a row's delete button while the table's refreshing prop is
\* true calls onRemoveFund for nothing; a click while it is false or left out
\* calls the onRemoveFund the parent passed exactly once, with the record of
\* the clicked row of data.
C20_DeleteDisabledWhileRefreshing ==
  [][table'.clicked # NoRow =>
       /\ table'.clicked \in Range(table.data)
       /\ table'.removed =
            IF table.refreshing.given /\ table.refreshing.value THEN table.removed
            ELSE IF table.onRemoveFund THEN Append(table.removed, table'.clicked)
            ELSE table.removed]_vars

\* C20 witness: the delete of the first row was clicked while not refreshing
\* and onRemoveFund got that row; then, while refreshing, the delete of the
\* second row was clicked and onRemoveFund was not called
C20_Witness ==
  /\ table.data = <<Rec(1, OldVal), Rec(NumCodes, OldVal)>>
  /\ table.refreshing = prop(TRUE, TRUE) /\ table.onRemoveFund
  /\ table.removed = <<Rec(1, OldVal)>>
  /\ table.clicked = Rec(NumCodes, OldVal)

\* C26: when a valuation script loads, its payload is taken by the handler
\* of the fetch that requested it: never by the handler of another fetch,
\* never by the handler of a fetch that has settled, and never by none.
C26_OwnResponseOnly ==
  last.kind = "gzLoad" => (last.owner \in Procs /\ last.handler = last.owner)

\* the fetch of p is the only one in flight and waits for its valuation script
lone(p) ==
  /\ \A q \in Procs \ {p} : phase[q] = "none"
  /\ phase[p] = "gz"
  /\ Len(scripts) = 1 /\ scripts[1].owner = p
  /\ jsonpgz # <<>> /\ Head(jsonpgz) = p

\* C22: no step of a fetch changes the tracked list, the favorites, the
\* collapsed codes, the settings, their stored copies or the flags of the
\* refresh cycle and of the add batch. A fetch called while no other request
\* is in flight installs its handler over the window.jsonpgz it finds, and
\* when its valuation request is over (loaded or failed) with no other fetch
\* in flight, window.jsonpgz is again what it was before the call.
C22_FetchFrame ==
  /\ [][UNCHANGED <<funds, storedFunds, favorites, storedFavorites,
                    collapsedCodes, storedCollapsed, refreshMs, storedRefreshMs,
                    tempSeconds, viewMode, storedViewMode, refreshingRef,
                    refreshing, loading, activeCycles>>]_vars
  /\ [][\A p \in Procs :
          ((\A q \in Procs : phase[q] = "none") /\ scripts = <<>> /\ phase'[p] = "gz") =>
            (lone(p)' /\ Tail(jsonpgz') = jsonpgz /\ scripts'[1].orig = jsonpgz)]_vars
  /\ [][\A p \in Procs :
          (lone(p) /\ phase'[p] # "gz") =>
            (jsonpgz' = Tail(jsonpgz) /\ jsonpgz' = scripts[1].orig /\ scripts' = <<>>)]_vars

\* C22 witness: with a fund tracked, a fetch that ran with no other fetch in
\* flight has resolved with ten holdings
C22_Witness ==
  /\ funds = <<Rec(1, OldVal)>> /\ storedFunds = funds
  /\ \A q \in Procs : phase[q] = "none"
  /\ scripts = <<>> /\ jsonpgz = <<>>
  /\ result["refresh"].state = "resolved"
  /\ Len(result["refresh"].holdings) = HoldingsLimit
  /\ result["add"].state = "none" /\ ops = 1

\* ------------------------------------------------------------ dedupeByCode
\* dedupeByCode on the lists that storage or an import can hold: records with
\* repeated codes, with different values, and records without a code
DedupeInputs ==
  SeqsUpTo({Rec(c, v) : c \in Codes \cup {NoCode}, v \in {1, OldVal}}, MaxList)

DedupeInit ==
  /\ loaded = TRUE
  /\ funds = <<>> /\ storedFunds \in DedupeInputs
  /\ refreshingRef = FALSE /\ refreshing = FALSE /\ activeCycles = 0
  /\ uniqueCodes = <<>> /\ rIdx = 0 /\ updated = <<>>
  /\ loading = FALSE /\ selectedCodes = <<>> /\ aIdx = 0 /\ closureFunds = <<>>
  /\ newFunds = <<>> /\ failures = <<>> /\ attempted = {}
  /\ jsonpgz = <<>> /\ scripts = <<>>
  /\ phase = [p \in Procs |-> "none"]
  /\ gzData = [p \in Procs |-> {}]
  /\ event = "none" /\ ops = 0
  /\ preFunds = <<>> /\ cycleFailed = {} /\ cycleRemoved = {} /\ cycleAdded = {}
  /\ InitSettings
  /\ InitFetch
  /\ InitTable
  /\ InitSearch
  /\ InitColumns
  /\ storedFavorites = <<>> /\ storedCollapsed = <<>>
  /\ storedRefreshMs = NoMs /\ storedViewMode = ""

\* const deduped = dedupeByCode(saved), line 381
DedupeStep ==
  /\ event = "none"
  /\ Apply([St EXCEPT !.funds = dedupeByCode(storedFunds), !.event = "deduped"])

DedupeNext == DedupeStep

DedupeSpec == DedupeInit /\ [][DedupeNext]_vars

\* the records of L whose code no earlier record of L has, in L's order
RECURSIVE FirstOccurrences(_, _)
FirstOccurrences(L, i) ==
  IF i > Len(L) THEN <<>>
  ELSE IF L[i].code # NoCode /\ \A j \in 1..(i - 1) : L[j].code # L[i].code
       THEN <<L[i]>> \o FirstOccurrences(L, i + 1)
       ELSE FirstOccurrences(L, i + 1)

\* C23: for every list L, dedupeByCode(L) is L restricted to the first record
\* of each code, in L's order, and de-duplicating it again gives the same list.
C23_DedupeIdempotent ==
  event = "deduped" =>
    /\ funds = FirstOccurrences(storedFunds, 1)
    /\ dedupeByCode(funds) = funds

\* C23 witness: a list of three records, two of one code with different
\* values around a record of another code, has been de-duplicated
C23_Witness ==
  /\ event = "deduped"
  /\ storedFunds = <<Rec(1, OldVal), Rec(NumCodes, 1), Rec(1, 1)>>
  /\ funds = <<Rec(1, OldVal), Rec(NumCodes, 1)>>

\* ------------------------------------------------------------------ search
Terms == {"", "a", "b"}
MaxHits == 1

\* handleSearchInput: the term is set and the debounce timer is replaced
handleSearchInput(S, val) ==
  [S EXCEPT !.search.searchTerm = val,
            !.search.searchTimeout = timerOf(TRUE, val)]

HandleSearchInput ==
  /\ ops < MaxOps
  /\ \E val \in Terms :
       /\ val # search.searchTerm
       /\ Apply(handleSearchInput(Task, val))

\* performSearch up to its await: a blank term empties the results, any
\* other term starts a request with a callback of its own
performSearch(S, val) ==
  IF val = "" THEN [S EXCEPT !.search.searchResults = NoResults]
  ELSE [S EXCEPT !.search.isSearching = TRUE,
                 !.search.requests = Append(@, val)]

\* the debounce timer fires, 300 ms after the last input
TimerFires ==
  /\ search.searchTimeout.set
  /\ Apply(performSearch([Cur EXCEPT !.search.searchTimeout = NoTimer],
                         search.searchTimeout.val))

withoutRequest(S, i) ==
  [S EXCEPT !.search.requests = RemoveAt(@, i), !.search.isSearching = FALSE]

\* the script of request i calls its callback: the funds of data.Datas
\* become the results when there is a Datas; then the finally block
SearchResponse ==
  \E i \in 1..Len(search.requests), hasDatas \in BOOLEAN, n \in 0..MaxHits :
    /\ ~hasDatas => n = 0
    /\ Apply(IF hasDatas
             THEN [withoutRequest(Cur, i)
                     EXCEPT !.search.searchResults = resultsOf(search.requests[i], n)]
             ELSE withoutRequest(Cur, i))

\* script.onerror of request i: the catch and the finally block
SearchError ==
  \E i \in 1..Len(search.requests) : Apply(withoutRequest(Cur, i))

SearchInit == FetchInit /\ funds = <<>>

SearchNext == HandleSearchInput \/ TimerFires \/ SearchResponse \/ SearchError

SearchSpec == SearchInit /\ [][SearchNext]_vars

\* C29: when no search request is in flight and no debounce timer is pending,
\* a non-empty list of results on display is the answer to the term in the
\* search box: never the answer to an earlier term, and never an answer when
\* the box is empty.
C29_LatestSearchShown ==
  (~search.searchTimeout.set /\ search.requests = <<>>) =>
    (search.searchResults.n > 0 =>
       (search.searchTerm # "" /\ search.searchResults.query = search.searchTerm))

\* ------------------------------------------------------------ column order
NON_FROZEN_COLUMN_IDS ==
  <<"latestNav", "estimateNav", "yesterdayChangePercent", "estimateChangePercent",
    "holdingAmount", "todayProfit", "holdingProfit">>
MOBILE_NON_FROZEN_COLUMN_IDS ==
  <<"yesterdayChangePercent", "estimateChangePercent", "todayProfit", "holdingProfit">>
OtherId == "other"  \* an id that is no column of either table
MaxOrder == 3

\* null
NoOrder == <<>>

\* the array stored under the table's key: the known ids of it, then the
\* ids of the table that are not among them; null when it is no array or empty
storedOrder(isArray, order, ids) ==
  IF ~isArray \/ Len(order) = 0 THEN NoOrder
  ELSE LET valid == SelectSeq(order, LAMBDA id : id \in Range(ids))
           missing == SelectSeq(ids, LAMBDA id : id \notin Range(valid))
       IN valid \o missing

getStoredColumnOrder(cs) ==
  IF cs.kind # "object" THEN NoOrder
  ELSE storedOrder(cs.pcArr, cs.pcTableColumnOrder, NON_FROZEN_COLUMN_IDS)

getStoredMobileColumnOrder(cs) ==
  IF cs.kind # "object" THEN NoOrder
  ELSE storedOrder(cs.mobileArr, cs.mobileTableColumnOrder, MOBILE_NON_FROZEN_COLUMN_IDS)

\* x ?? y
orElse(x, y) == IF x = NoOrder THEN y ELSE x

\* what storage can hold under customSettings
StoredSettings ==
  {NoSettings, settings("unparseable", FALSE, <<>>, FALSE, <<>>),
   settings("object", FALSE, <<>>, FALSE, <<>>)}
  \cup {settings("object", TRUE, o, FALSE, <<>>) :
          o \in SeqsUpTo(Range(NON_FROZEN_COLUMN_IDS) \cup {OtherId}, MaxOrder)}
  \cup {settings("object", FALSE, <<>>, TRUE, o) :
          o \in SeqsUpTo(Range(MOBILE_NON_FROZEN_COLUMN_IDS) \cup {OtherId}, MaxOrder)}

OrderInit ==
  /\ loaded = TRUE
  /\ funds = <<>> /\ storedFunds = <<>>
  /\ refreshingRef = FALSE /\ refreshing = FALSE /\ activeCycles = 0
  /\ uniqueCodes = <<>> /\ rIdx = 0 /\ updated = <<>>
  /\ loading = FALSE /\ selectedCodes = <<>> /\ aIdx = 0 /\ closureFunds = <<>>
  /\ newFunds = <<>> /\ failures = <<>> /\ attempted = {}
  /\ jsonpgz = <<>> /\ scripts = <<>>
  /\ phase = [p \in Procs |-> "none"]
  /\ gzData = [p \in Procs |-> {}]
  /\ event = "none" /\ ops = 0
  /\ preFunds = <<>> /\ cycleFailed = {} /\ cycleRemoved = {} /\ cycleAdded = {}
  /\ InitSettings
  /\ InitFetch
  /\ InitTable
  /\ InitSearch
  /\ columns \in {[customSettings |-> cs,
                    columnOrder |-> <<>>, mobileColumnOrder |-> <<>>,
                    pcMounted |-> FALSE, mobileMounted |-> FALSE] :
                   cs \in StoredSettings}
  /\ storedFavorites = <<>> /\ storedCollapsed = <<>>
  /\ storedRefreshMs = NoMs /\ storedViewMode = ""

\* the initial columnOrder state of PcFundTable
MountPc ==
  /\ ~columns.pcMounted
  /\ Apply([St EXCEPT !.columns.pcMounted = TRUE,
                      !.columns.columnOrder =
                         orElse(getStoredColumnOrder(columns.customSettings),
                                NON_FROZEN_COLUMN_IDS)])

\* the initial mobileColumnOrder state of MobileFundTable
MountMobile ==
  /\ ~columns.mobileMounted
  /\ Apply([St EXCEPT !.columns.mobileMounted = TRUE,
                      !.columns.mobileColumnOrder =
                         orElse(getStoredMobileColumnOrder(columns.customSettings),
                                MOBILE_NON_FROZEN_COLUMN_IDS)])

OrderNext == MountPc \/ MountMobile

OrderSpec == OrderInit /\ [][OrderNext]_vars

\* order holds every id of ids exactly once and nothing else
IsPermutation(order, ids) ==
  /\ Len(order) = Len(ids)
  /\ \A i \in 1..Len(ids) : Count(order, ids[i]) = 1

\* C30: the column order a table starts with is a permutation of the table's
\* non-frozen column ids, whatever array is stored, and it is the default
\* order when the stored item is missing, not JSON, no array or empty.
C30_OrderIsPermutation ==
  LET cs == columns.customSettings
  IN /\ columns.pcMounted =>
          /\ IsPermutation(columns.columnOrder, NON_FROZEN_COLUMN_IDS)
          /\ (cs.kind # "object" \/ ~cs.pcArr \/ cs.pcTableColumnOrder = <<>>) =>
               columns.columnOrder = NON_FROZEN_COLUMN_IDS
     /\ columns.mobileMounted =>
          /\ IsPermutation(columns.mobileColumnOrder, MOBILE_NON_FROZEN_COLUMN_IDS)
          /\ (cs.kind # "object" \/ ~cs.mobileArr \/ cs.mobileTableColumnOrder = <<>>) =>
               columns.mobileColumnOrder = MOBILE_NON_FROZEN_COLUMN_IDS

====
